---- MODULE Spec2Model ----
(***************************************************************************)
(* A model of the privacy PII/GDPR scanner (src/src/scanner/scanner.py).   *)
(*                                                                         *)
(* Text is modelled as a sequence of one-character strings, so that        *)
(* regular-expression search, glob matching, prefix tests, whitespace      *)
(* stripping and line splitting are computed character by character.       *)
(***************************************************************************)
EXTENDS Integers, Sequences, FiniteSets, TLC

(***************************************************************************)
(* The state: the environment (file system, allowlist file, report file),  *)
(* the running process (main and the loop of scan_repository), and a       *)
(* record of the previous run against which a run is compared.             *)
(***************************************************************************)
VARIABLES
    fs,             \* the scan root and the report's destination
    allowfile,      \* the allowlist file
    report,         \* the report file: <<>> or <<the report last written>>
    run,            \* the number of this run, which also serves as its time
    pc,             \* where main is: load, enter, loop, write, exit, done
    allow_paths,    \* main's allow_paths
    allow_patterns, \* main's allow_patterns
    listing,        \* what root.rglob("*") yields to scan_repository
    idx,            \* the position of the loop of scan_repository in listing
    issues,         \* the issues list of scan_repository, then of main
    read_failed,    \* the files whose read_text raised in this run
    outcome,        \* what main printed: none, fatal, findings, clean
    exit_code,      \* the exit status; -1 while the process runs
    prev,           \* the previous run: its inputs and results
    change          \* what the user changed between the previous run and this

vars ==
    <<fs, allowfile, report, run, pc, allow_paths, allow_patterns, listing,
      idx, issues, read_failed, outcome, exit_code, prev, change>>

(***************************************************************************)
(* Character classes                                                       *)
(***************************************************************************)
Digit ==
    {"0", "1", "2", "3", "4", "5", "6", "7", "8", "9"}

Lower ==
    {"a", "b", "c", "d", "e", "f", "g", "h", "i", "j", "k", "l", "m",
     "n", "o", "p", "q", "r", "s", "t", "u", "v", "w", "x", "y", "z"}

Upper ==
    {"A", "B", "C", "D", "E", "F", "G", "H", "I", "J", "K", "L", "M",
     "N", "O", "P", "Q", "R", "S", "T", "U", "V", "W", "X", "Y", "Z"}

Letter ==
    Lower \cup Upper

\* \s of the re module and the characters str.strip() removes
Whitespace ==
    {" ", "\t", "\n", "\r"}

\* \w of the re module
WordChar ==
    Letter \cup Digit \cup {"_"}

\* the line boundaries str.splitlines() recognises among the characters used
LineBreak ==
    {"\n", "\r"}

(***************************************************************************)
(* Sequence helpers                                                        *)
(***************************************************************************)
RECURSIVE Flatten(_)
Flatten(ss) ==
    IF ss = <<>> THEN <<>> ELSE Head(ss) \o Flatten(Tail(ss))

StartsWith(s, p) ==
    /\ Len(p) <= Len(s)
    /\ SubSeq(s, 1, Len(p)) = p

RECURSIVE Join(_, _)
\* "/".join(parts)
Join(parts, sep) ==
    IF parts = <<>> THEN <<>>
    ELSE IF Len(parts) = 1 THEN Head(parts)
    ELSE Head(parts) \o sep \o Join(Tail(parts), sep)

RECURSIVE Split(_, _)
\* s.split(sep) for a one-character separator
Split(s, sep) ==
    IF \A k \in 1..Len(s) : s[k] # sep THEN <<s>>
    ELSE LET k == CHOOSE j \in 1..Len(s) :
                      s[j] = sep /\ \A h \in 1..(j - 1) : s[h] # sep
         IN  <<SubSeq(s, 1, k - 1)>> \o Split(SubSeq(s, k + 1, Len(s)), sep)

RECURSIVE LStrip(_, _)
LStrip(s, chars) ==
    IF s # <<>> /\ Head(s) \in chars THEN LStrip(Tail(s), chars) ELSE s

RECURSIVE RStrip(_, _)
RStrip(s, chars) ==
    IF s # <<>> /\ s[Len(s)] \in chars
    THEN RStrip(SubSeq(s, 1, Len(s) - 1), chars)
    ELSE s

\* str.strip()
Strip(s) ==
    LStrip(RStrip(s, Whitespace), Whitespace)

RECURSIVE SplitLines(_)
\* str.splitlines(): "\r\n" is one boundary, and a final boundary opens no
\* further line
SplitLines(s) ==
    IF s = <<>> THEN <<>>
    ELSE IF \A k \in 1..Len(s) : s[k] \notin LineBreak THEN <<s>>
    ELSE LET k == CHOOSE j \in 1..Len(s) :
                      s[j] \in LineBreak /\ \A h \in 1..(j - 1) : s[h] \notin LineBreak
             w == IF s[k] = "\r" /\ k < Len(s) /\ s[k + 1] = "\n" THEN 2 ELSE 1
         IN  <<SubSeq(s, 1, k - 1)>> \o SplitLines(SubSeq(s, k + w, Len(s)))

(***************************************************************************)
(* Regular expressions: a compiled pattern is a tree of nodes, and         *)
(* Ends(r, s, i) lists, in the order the backtracking matcher of the re    *)
(* module tries them, the offsets at which a match of r that starts at     *)
(* offset i of s can end.  The first element is the match re reports.      *)
(***************************************************************************)
Node(t, s, rs, min, max) ==
    [t |-> t, s |-> s, rs |-> rs, min |-> min, max |-> max]

\* a character class
Set(S) ==
    Node("set", S, <<>>, 0, 0)

Lit(c) ==
    Set({c})

\* "." : any character but a newline
AnyChar ==
    Node("any", {}, <<>>, 0, 0)

Bol ==
    Node("bol", {}, <<>>, 0, 0)

Eol ==
    Node("eol", {}, <<>>, 0, 0)

\* \b
WordBoundary ==
    Node("wb", {}, <<>>, 0, 0)

Cat(rs) ==
    Node("cat", {}, rs, 0, 0)

Alt(rs) ==
    Node("alt", {}, rs, 0, 0)

\* r{min,max}, greedy; max = -1 is "no upper limit"
Rep(r, min, max) ==
    Node("rep", {}, <<r>>, min, max)

Opt(r) ==
    Rep(r, 0, 1)

Plus(r) ==
    Rep(r, 1, -1)

Star(r) ==
    Rep(r, 0, -1)

IsWordAt(s, k) ==
    k >= 1 /\ k <= Len(s) /\ s[k] \in WordChar

RECURSIVE Ends(_, _, _)
RECURSIVE EndsCat(_, _, _, _)
RECURSIVE EndsAlt(_, _, _, _)
RECURSIVE EndsRep(_, _, _, _, _)
RECURSIVE EndsEach(_, _, _, _, _)

Ends(r, s, i) ==
    CASE r.t = "set" -> IF i < Len(s) /\ s[i + 1] \in r.s THEN <<i + 1>> ELSE <<>>
      [] r.t = "any" -> IF i < Len(s) /\ s[i + 1] # "\n" THEN <<i + 1>> ELSE <<>>
      [] r.t = "bol" -> IF i = 0 THEN <<i>> ELSE <<>>
      [] r.t = "eol" -> IF i = Len(s) \/ (i = Len(s) - 1 /\ s[Len(s)] = "\n")
                        THEN <<i>> ELSE <<>>
      [] r.t = "wb"  -> IF IsWordAt(s, i) # IsWordAt(s, i + 1) THEN <<i>> ELSE <<>>
      [] r.t = "cat" -> EndsCat(r.rs, 1, s, i)
      [] r.t = "alt" -> EndsAlt(r.rs, 1, s, i)
      [] r.t = "rep" -> EndsRep(r.rs[1], r.min, r.max, s, i)

\* rs[k], rs[k+1], ... in sequence from offset i
EndsCat(rs, k, s, i) ==
    IF k > Len(rs) THEN <<i>>
    ELSE LET first == Ends(rs[k], s, i)
         IN  Flatten([j \in 1..Len(first) |-> EndsCat(rs, k + 1, s, first[j])])

\* the alternatives rs[k], rs[k+1], ... tried left to right
EndsAlt(rs, k, s, i) ==
    IF k > Len(rs) THEN <<>>
    ELSE Ends(rs[k], s, i) \o EndsAlt(rs, k + 1, s, i)

\* greedy repetition: one more round is tried before stopping
EndsRep(r, min, max, s, i) ==
    LET round == IF max = 0 THEN <<>> ELSE Ends(r, s, i)
        \* a round that consumes nothing is not repeated
        more  == EndsEach(r, min, max, s, SelectSeq(round, LAMBDA e : e > i))
        stop  == IF min <= 0 THEN <<i>> ELSE <<>>
    IN  more \o stop

\* the continuations of a repetition after a round that ended at each of es
EndsEach(r, min, max, s, es) ==
    IF es = <<>> THEN <<>>
    ELSE EndsRep(r, min - 1, IF max > 0 THEN max - 1 ELSE max, s, Head(es))
         \o EndsEach(r, min, max, s, Tail(es))

\* whether a match of r starts at offset i of s
MatchesAt(r, s, i) ==
    Ends(r, s, i) # <<>>

\* re.search(r, s) is not None
Search(r, s) ==
    \E i \in 0..Len(s) : MatchesAt(r, s, i)

RECURSIVE FindIterFrom(_, _, _)
\* pattern.finditer(s) from offset pos: the leftmost match, then on from its end
FindIterFrom(r, s, pos) ==
    IF \A i \in pos..Len(s) : ~MatchesAt(r, s, i) THEN <<>>
    ELSE LET st == CHOOSE i \in pos..Len(s) :
                       MatchesAt(r, s, i) /\ \A h \in pos..(i - 1) : ~MatchesAt(r, s, h)
             en == Head(Ends(r, s, st))
         IN  <<SubSeq(s, st + 1, en)>>
             \o FindIterFrom(r, s, IF en = st THEN en + 1 ELSE en)

\* [m.group(0) for m in pattern.finditer(s)]
FindIter(r, s) ==
    FindIterFrom(r, s, 0)

(***************************************************************************)
(* The pattern catalogue                                                   *)
(***************************************************************************)
\* [A-Z0-9._%+-] under re.IGNORECASE
EmailLocalChar ==
    Letter \cup Digit \cup {".", "_", "%", "+", "-"}

\* [A-Z0-9.-] under re.IGNORECASE
EmailDomainChar ==
    Letter \cup Digit \cup {".", "-"}

\* [-.\s]
PhoneSeparator ==
    {"-", "."} \cup Whitespace

\* [A-Z0-9._%+-]+@[A-Z0-9.-]+\.[A-Z]{2,}  with re.IGNORECASE
EmailPattern ==
    Cat(<<Plus(Set(EmailLocalChar)), Lit("@"), Plus(Set(EmailDomainChar)),
          Lit("."), Rep(Set(Letter), 2, -1)>>)

\* (?:\+?1[-.\s]?)?(?:\(?\d{3}\)?|\d{3})[-.\s]?\d{3}[-.\s]?\d{4}
PhonePattern ==
    Cat(<<Opt(Cat(<<Opt(Lit("+")), Lit("1"), Opt(Set(PhoneSeparator))>>)),
          Alt(<<Cat(<<Opt(Lit("(")), Rep(Set(Digit), 3, 3), Opt(Lit(")"))>>),
                Rep(Set(Digit), 3, 3)>>),
          Opt(Set(PhoneSeparator)), Rep(Set(Digit), 3, 3),
          Opt(Set(PhoneSeparator)), Rep(Set(Digit), 4, 4)>>)

\* \b\d{3}-\d{2}-\d{4}\b
SsnPattern ==
    Cat(<<WordBoundary, Rep(Set(Digit), 3, 3), Lit("-"), Rep(Set(Digit), 2, 2),
          Lit("-"), Rep(Set(Digit), 4, 4), WordBoundary>>)

\* the catalogue in the order PII_PATTERNS.items() yields it
PII_PATTERNS ==
    <<[type |-> "email", pattern |-> EmailPattern],
      [type |-> "phone", pattern |-> PhonePattern],
      [type |-> "ssn", pattern |-> SsnPattern]>>

PiiTypes ==
    {"email", "phone", "ssn"}

SEVERITY_MAPPING ==
    [type \in PiiTypes |->
        CASE type = "email" -> "medium"
          [] type = "phone" -> "high"
          [] type = "ssn" -> "high"]

\* SeverityOf with the lookup made under a key the mapping never holds, so
\* that every lookup falls back to the default
SeverityOfMissingKey(pii_type) ==
    "medium"

\* SEVERITY_MAPPING.get(pii_type, "medium")
SeverityOf(pii_type) ==
    IF pii_type \in DOMAIN SEVERITY_MAPPING THEN SEVERITY_MAPPING[pii_type]
    ELSE "medium"

(***************************************************************************)
(* re.compile of an allowlist pattern.  The syntax covered: literal        *)
(* characters, ".", "^", "$", the escapes \d \s \w \b and escaped          *)
(* punctuation, a greedy "*", "+" or "?" after a character, and the        *)
(* errors of an unbalanced parenthesis, a repeat with nothing before it    *)
(* and a pattern ending in a backslash.  Patterns using other syntax       *)
(* (classes, groups, alternation, counted or lazy repeats) are not drawn.  *)
(***************************************************************************)
Quantifier ==
    {"*", "+", "?"}

\* the node of an escape \c
EscapeNode(c) ==
    CASE c = "d" -> Set(Digit)
      [] c = "s" -> Set(Whitespace)
      [] c = "w" -> Set(WordChar)
      [] c = "b" -> WordBoundary
      [] c \notin WordChar -> Lit(c)

\* the node of a quantifier q applied to r
QuantifierNode(q, r) ==
    CASE q = "*" -> Star(r)
      [] q = "+" -> Plus(r)
      [] q = "?" -> Opt(r)

RECURSIVE ParseFrom(_, _, _)
\* the pattern p parsed from position k on, acc being the nodes parsed so far
ParseFrom(p, k, acc) ==
    IF k > Len(p) THEN [ok |-> TRUE, re |-> Cat(acc)]
    ELSE LET c == p[k] IN
         CASE c = "\\" ->
                IF k = Len(p) THEN [ok |-> FALSE, re |-> Cat(<<>>)]
                ELSE ParseFrom(p, k + 2, Append(acc, EscapeNode(p[k + 1])))
           [] c = "." -> ParseFrom(p, k + 1, Append(acc, AnyChar))
           [] c = "^" -> ParseFrom(p, k + 1, Append(acc, Bol))
           [] c = "$" -> ParseFrom(p, k + 1, Append(acc, Eol))
           [] c = "(" /\ \A j \in (k + 1)..Len(p) : p[j] # ")" ->
                [ok |-> FALSE, re |-> Cat(<<>>)]
           [] c = ")" -> [ok |-> FALSE, re |-> Cat(<<>>)]
           [] c \in Quantifier /\ (acc = <<>> \/ acc[Len(acc)].t \in {"bol", "eol", "wb"}) ->
                [ok |-> FALSE, re |-> Cat(<<>>)]
           [] c \in Quantifier /\ acc # <<>> /\ acc[Len(acc)].t \in {"set", "any"} ->
                ParseFrom(p, k + 1,
                          Append(SubSeq(acc, 1, Len(acc) - 1),
                                 QuantifierNode(c, acc[Len(acc)])))
           [] c \notin Quantifier \cup {"\\", ".", "^", "$", "(", ")", "[", "{", "|"} ->
                ParseFrom(p, k + 1, Append(acc, Lit(c)))

\* re.compile(pattern): ok is FALSE where re.error is raised
Compile(pattern) ==
    ParseFrom(pattern, 1, <<>>)

(***************************************************************************)
(* Paths: a relative path is the sequence of its components                *)
(***************************************************************************)
DEFAULT_IGNORED_DIRECTORIES ==
    {<<".", "g", "i", "t">>,
     <<"n", "o", "d", "e", "_", "m", "o", "d", "u", "l", "e", "s">>,
     <<"_", "_", "p", "y", "c", "a", "c", "h", "e", "_", "_">>,
     <<".", "v", "e", "n", "v">>,
     <<".", "n", "e", "x", "t">>,
     <<"d", "i", "s", "t">>,
     <<"b", "u", "i", "l", "d">>,
     <<"c", "o", "v", "e", "r", "a", "g", "e">>,
     <<"r", "e", "p", "o", "r", "t", "s">>}

DEFAULT_IGNORED_FILES ==
    {<<"p", "a", "c", "k", "a", "g", "e", "-", "l", "o", "c", "k", ".", "j",
       "s", "o", "n">>,
     <<"y", "a", "r", "n", ".", "l", "o", "c", "k">>,
     <<"p", "n", "p", "m", "-", "l", "o", "c", "k", ".", "y", "a", "m", "l">>}

\* set(rel_path.parts)
PartsSet(parts) ==
    {parts[k] : k \in 1..Len(parts)}

\* rel_path.name
PathName(parts) ==
    IF parts = <<>> THEN <<>> ELSE parts[Len(parts)]

\* rel_path.as_posix()
AsPosix(parts) ==
    Join(parts, <<"/">>)

RECURSIVE FnMatch(_, _)
\* fnmatch.fnmatchcase(name, pat) for patterns of literals, "*" and "?"
FnMatch(name, pat) ==
    IF pat = <<>> THEN name = <<>>
    ELSE CASE Head(pat) = "*" ->
                \/ FnMatch(name, Tail(pat))
                \/ name # <<>> /\ FnMatch(Tail(name), pat)
           [] Head(pat) = "?" -> name # <<>> /\ FnMatch(Tail(name), Tail(pat))
           [] Head(pat) \notin {"*", "?", "["} ->
                name # <<>> /\ Head(name) = Head(pat) /\ FnMatch(Tail(name), Tail(pat))

\* the components pathlib parses a pattern into: empty ones and "." are dropped
PatternParts(entry) ==
    SelectSeq(Split(entry, "/"), LAMBDA c : c # <<>> /\ c # <<".">>)

\* rel_path.match(entry) of a relative path: exc where ValueError (empty
\* pattern) is raised; a pattern with a root never matches a relative path;
\* otherwise the pattern's components match the path's last ones
PathMatch(parts, entry) ==
    LET pat == PatternParts(entry) IN
    IF entry # <<>> /\ Head(entry) = "/" THEN [exc |-> FALSE, ret |-> FALSE]
    ELSE IF pat = <<>> THEN [exc |-> TRUE, ret |-> FALSE]
    ELSE [exc |-> FALSE,
          ret |-> /\ Len(pat) <= Len(parts)
                  /\ \A k \in 1..Len(pat) :
                        FnMatch(parts[Len(parts) - Len(pat) + k], pat[k])]

RECURSIVE IgnoreByEntries(_, _)
\* the loop of should_ignore_path over the user's entries, in order
IgnoreByEntries(parts, ignore_paths) ==
    IF ignore_paths = <<>> THEN [exc |-> FALSE, ret |-> FALSE]
    ELSE LET entry == Head(ignore_paths)
             m == PathMatch(parts, entry)
         IN  IF m.exc THEN [exc |-> TRUE, ret |-> FALSE]
             ELSE IF m.ret \/ StartsWith(AsPosix(parts), RStrip(entry, {"/"}))
             THEN [exc |-> FALSE, ret |-> TRUE]
             ELSE IgnoreByEntries(parts, Tail(ignore_paths))

RECURSIVE IgnoreByGlobOnly(_, _)
\* IgnoreByEntries without the prefix test
IgnoreByGlobOnly(parts, ignore_paths) ==
    IF ignore_paths = <<>> THEN [exc |-> FALSE, ret |-> FALSE]
    ELSE LET m == PathMatch(parts, Head(ignore_paths))
         IN  IF m.exc THEN [exc |-> TRUE, ret |-> FALSE]
             ELSE IF m.ret THEN [exc |-> FALSE, ret |-> TRUE]
             ELSE IgnoreByGlobOnly(parts, Tail(ignore_paths))

\* should_ignore_path with user entries matched as globs only
ShouldIgnorePathGlobOnly(parts, ignore_paths) ==
    IF DEFAULT_IGNORED_DIRECTORIES \cap PartsSet(parts) # {}
    THEN [exc |-> FALSE, ret |-> TRUE]
    ELSE IF PathName(parts) \in DEFAULT_IGNORED_FILES
    THEN [exc |-> FALSE, ret |-> TRUE]
    ELSE IgnoreByGlobOnly(parts, ignore_paths)

\* should_ignore_path(rel_path, ignore_paths): ret is the value returned, exc
\* is TRUE where an exception leaves the function instead
should_ignore_path(parts, ignore_paths) ==
    IF DEFAULT_IGNORED_DIRECTORIES \cap PartsSet(parts) # {}
    THEN [exc |-> FALSE, ret |-> TRUE]
    ELSE IF PathName(parts) \in DEFAULT_IGNORED_FILES
    THEN [exc |-> FALSE, ret |-> TRUE]
    ELSE IgnoreByEntries(parts, ignore_paths)

(***************************************************************************)
(* The file system: the scan root's state and its entries.  The order of   *)
(* the entries is the order in which a directory listing yields them.      *)
(***************************************************************************)
File(path, content) ==
    [path |-> path, isdir |-> FALSE, readable |-> TRUE, content |-> content]

\* a file whose read_text raises OSError
UnreadableFile(path, content) ==
    [path |-> path, isdir |-> FALSE, readable |-> FALSE, content |-> content]

Dir(path) ==
    [path |-> path, isdir |-> TRUE, readable |-> TRUE, content |-> <<>>]

\* a directory whose listing raises PermissionError
UnlistableDir(path) ==
    [path |-> path, isdir |-> TRUE, readable |-> FALSE, content |-> <<>>]

\* the entries of directory dir, in listing order
Children(tree, dir) ==
    SelectSeq(tree.entries,
              LAMBDA e : /\ Len(e.path) = Len(dir) + 1
                         /\ SubSeq(e.path, 1, Len(dir)) = dir)

\* what listing directory dir yields: nothing where the listing is refused
ScanDir(tree, dir, listable) ==
    IF listable THEN Children(tree, dir) ELSE <<>>

RECURSIVE IterateDirectories(_, _, _)
\* pathlib's walk for "**": the directory itself, then each subdirectory's
\* walk, in listing order
IterateDirectories(tree, dir, listable) ==
    LET subs == SelectSeq(ScanDir(tree, dir, listable), LAMBDA e : e.isdir) IN
    <<[path |-> dir, listable |-> listable]>>
    \o Flatten([k \in 1..Len(subs) |->
                   IterateDirectories(tree, subs[k].path, subs[k].readable)])

\* the entries of every directory of the walk, in the walk's order
RGlobWalk(tree) ==
    LET dirs == IterateDirectories(tree, <<>>, tree.root = "ok") IN
    Flatten([k \in 1..Len(dirs) |-> ScanDir(tree, dirs[k].path, dirs[k].listable)])

RECURSIVE Reverse(_)
Reverse(seq) ==
    IF seq = <<>> THEN <<>> ELSE Append(Reverse(Tail(seq)), Head(seq))

\* RGlob collected into a set before it is iterated: the order of iteration
\* follows the paths' hashes, which differ from one process to the next
RGlobThroughSet(tree) ==
    IF tree.root \in {"missing", "notdir"} THEN <<>>
    ELSE IF run % 2 = 1 THEN RGlobWalk(tree)
    ELSE Reverse(RGlobWalk(tree))

\* list(root.rglob("*")): a root that is missing or is no directory yields
\* nothing, and neither does a root whose listing is refused
RGlob(tree) ==
    IF tree.root \in {"missing", "notdir"} THEN <<>> ELSE RGlobWalk(tree)

(***************************************************************************)
(* load_allowlist                                                          *)
(***************************************************************************)
\* load_allowlist(path): exc is TRUE where parsing the file raises
load_allowlist(file) ==
    IF ~file.exists THEN [exc |-> FALSE, paths |-> <<>>, patterns |-> <<>>]
    ELSE IF ~file.wellformed THEN [exc |-> TRUE, paths |-> <<>>, patterns |-> <<>>]
    ELSE [exc |-> FALSE, paths |-> file.paths,
          patterns |-> file.regexes \o file.patterns]

(***************************************************************************)
(* The inputs the model draws                                              *)
(***************************************************************************)
ContactText ==
    <<"C", "o", "n", "t", "a", "c", "t", ":", " ", "a", "l", "i", "c", "e",
      "@", "e", "x", "a", "m", "p", "l", "e", ".", "c", "o", "m", " ", "o",
      "r", " ", "5", "5", "5", "-", "1", "2", "3", "-", "4", "5", "6", "7",
      "\n", "S", "S", "N", ":", " ", "1", "2", "3", "-", "4", "5", "-", "6",
      "7", "8", "9", " ", " ", "#", " ", "t", "e", "s", "t", " ", "f", "i",
      "x", "t", "u", "r", "e", "\n">>

MailText ==
    <<"m", "a", "i", "l", " ", "b", "o", "b", "@", "c", "o", "r", "p", ".",
      "i", "o", "\n">>

PlainText ==
    <<"n", "o", " ", "p", "i", "i", " ", "h", "e", "r", "e", "\n">>

SsnText ==
    <<"i", "d", " ", "1", "2", "3", "-", "4", "5", "-", "6", "7", "8", "9",
      "\n">>

AppName ==
    <<"a", ".", "t", "x", "t">>

DocsName ==
    <<"d", "o", "c", "s">>

ReadmeName ==
    <<"b", ".", "m", "d">>

NodeModulesName ==
    <<"n", "o", "d", "e", "_", "m", "o", "d", "u", "l", "e", "s">>

PkgName ==
    <<"p", "k", "g">>

IndexName ==
    <<"i", ".", "j", "s">>

YarnLockName ==
    <<"y", "a", "r", "n", ".", "l", "o", "c", "k">>

SecretName ==
    <<"k", "e", "y", ".", "b", "i", "n">>

RuleExampleCom ==
    <<"e", "x", "a", "m", "p", "l", "e", "\\", ".", "c", "o", "m">>

RuleFixture ==
    <<"f", "i", "x", "t", "u", "r", "e">>

RuleStarts123 ==
    <<"^", "1", "2", "3">>

RuleCorp ==
    <<"c", "o", "r", "p">>

RuleUnbalanced ==
    <<"(">>

PathDocs ==
    <<"d", "o", "c", "s">>

PathGlobMd ==
    <<"*", ".", "m", "d">>

PathDo ==
    <<"d", "o">>

PathEmpty ==
    <<>>

AllowFile(paths, regexes, patterns) ==
    [exists |-> TRUE, wellformed |-> TRUE, paths |-> paths,
     regexes |-> regexes, patterns |-> patterns]

\* no allowlist file
AllowAbsent ==
    [exists |-> FALSE, wellformed |-> TRUE, paths |-> <<>>,
     regexes |-> <<>>, patterns |-> <<>>]

\* an allowlist file that does not parse
AllowMalformed ==
    [exists |-> TRUE, wellformed |-> FALSE, paths |-> <<>>,
     regexes |-> <<>>, patterns |-> <<>>]

AllowFiles ==
    {AllowAbsent, AllowMalformed,
     AllowFile(<<>>, <<>>, <<>>),
     AllowFile(<<>>, <<>>, <<RuleExampleCom>>),
     AllowFile(<<>>, <<RuleFixture>>, <<>>),
     AllowFile(<<>>, <<RuleStarts123>>, <<RuleCorp>>),
     AllowFile(<<>>, <<>>, <<RuleCorp, RuleUnbalanced>>),
     AllowFile(<<PathDocs>>, <<>>, <<>>),
     AllowFile(<<PathGlobMd>>, <<>>, <<RuleFixture>>),
     AllowFile(<<PathDo, PathEmpty>>, <<>>, <<>>),
     AllowFile(<<PathEmpty>>, <<>>, <<>>)}

\* the text rules a user may add between two runs
AddableRules ==
    {RuleExampleCom, RuleStarts123, RuleCorp, RuleUnbalanced}

Tree(root, output_ok, entries) ==
    [root |-> root, output_ok |-> output_ok, entries |-> entries]

TreeFull ==
    Tree("ok", TRUE,
         <<File(<<AppName>>, ContactText),
           Dir(<<DocsName>>),
           Dir(<<NodeModulesName>>),
           File(<<YarnLockName>>, MailText),
           File(<<DocsName, ReadmeName>>, MailText),
           Dir(<<NodeModulesName, PkgName>>),
           File(<<NodeModulesName, PkgName, IndexName>>, SsnText)>>)

TreeReordered ==
    Tree("ok", TRUE,
         <<Dir(<<DocsName>>),
           File(<<DocsName, ReadmeName>>, SsnText),
           File(<<DocsName, AppName>>, ContactText),
           File(<<AppName>>, MailText)>>)

TreeUnreadable ==
    Tree("ok", TRUE,
         <<File(<<AppName>>, ContactText),
           UnreadableFile(<<SecretName>>, SsnText),
           Dir(<<DocsName>>),
           File(<<DocsName, ReadmeName>>, PlainText)>>)

TreeVendored ==
    Tree("ok", TRUE,
         <<UnreadableFile(<<SecretName>>, SsnText),
           Dir(<<NodeModulesName>>),
           File(<<NodeModulesName, IndexName>>, SsnText),
           UnlistableDir(<<DocsName>>),
           File(<<DocsName, ReadmeName>>, MailText)>>)

TreeMailOnly ==
    Tree("ok", TRUE, <<File(<<AppName>>, MailText)>>)

TreeEmpty ==
    Tree("ok", TRUE, <<>>)

TreeMissing ==
    Tree("missing", TRUE, <<>>)

TreeNotDir ==
    Tree("notdir", TRUE, <<>>)

TreeDenied ==
    Tree("denied", TRUE, <<File(<<AppName>>, ContactText)>>)

\* the report's destination cannot be written
TreeNoOutput ==
    Tree("ok", FALSE, <<File(<<AppName>>, MailText)>>)

Trees ==
    {TreeFull, TreeReordered, TreeUnreadable, TreeVendored, TreeMailOnly,
     TreeEmpty, TreeMissing, TreeNotDir, TreeDenied, TreeNoOutput}

\* the number of runs of the scanner a behaviour holds
MaxRuns ==
    2

(***************************************************************************)
(* Matching and suppression                                                *)
(***************************************************************************)
normalize_match(text) ==
    Strip(text)

\* is_allowed_match returning after the first pattern
IsAllowedMatchFirstOnly(text, rules) ==
    IF rules = <<>> THEN [exc |-> FALSE, ret |-> FALSE]
    ELSE LET c == Compile(Head(rules)) IN
         IF ~c.ok THEN [exc |-> TRUE, ret |-> FALSE]
         ELSE [exc |-> FALSE, ret |-> Search(c.re, text)]

RECURSIVE is_allowed_match(_, _)
\* any(re.search(pattern, text) for pattern in rules): the patterns
\* are compiled and searched in order until one matches; exc is TRUE where
\* re.error leaves the function
is_allowed_match(text, rules) ==
    IF rules = <<>> THEN [exc |-> FALSE, ret |-> FALSE]
    ELSE LET c == Compile(Head(rules)) IN
         IF ~c.ok THEN [exc |-> TRUE, ret |-> FALSE]
         ELSE IF Search(c.re, text) THEN [exc |-> FALSE, ret |-> TRUE]
         ELSE is_allowed_match(text, Tail(rules))

\* IsSuppressed without the test of the line
IsSuppressedByTextOnly(matched_text, line, rules) ==
    is_allowed_match(matched_text, rules)

\* the test of scan_file lines 107-109 on one candidate
IsSuppressed(matched_text, line, rules) ==
    LET a == is_allowed_match(matched_text, rules) IN
    IF a.exc \/ a.ret THEN a ELSE is_allowed_match(line, rules)

\* the matches of one pattern in a line, normalised, as candidates
CandidatesOf(entry, line_no, line) ==
    LET ms == FindIter(entry.pattern, line) IN
    [k \in 1..Len(ms) |->
        [line |-> line_no, type |-> entry.type,
         match |-> normalize_match(ms[k]), raw |-> line]]

\* the candidates of a text in the order the loops of scan_file visit them:
\* by line, then by pattern in catalogue order, then left to right
ComputeCandidates(content) ==
    LET lines == SplitLines(content) IN
    Flatten([n \in 1..Len(lines) |->
        Flatten([p \in 1..Len(PII_PATTERNS) |->
            CandidatesOf(PII_PATTERNS[p], n, lines[n])])])

\* the contents of the files the model draws
KnownContents ==
    UNION {{tree.entries[k].content : k \in DOMAIN tree.entries} : tree \in Trees}

\* ComputeCandidates, tabulated once for the contents the model draws
CandidatesTable ==
    [content \in KnownContents |-> ComputeCandidates(content)]

Candidates(content) ==
    CandidatesTable[content]

\* the issue scan_file appends for a candidate; file stands for str(file_path),
\* the root joined with these components
Issue(file, cand) ==
    [file |-> file.path, line |-> cand.line, type |-> cand.type,
     match |-> cand.match, severity |-> SeverityOf(cand.type),
     context |-> Strip(cand.raw)]

\* scan_file without the handler of a failed read: the error leaves the
\* function
ScanFileUnguardedRead(file, rules) ==
    LET cands == IF file.readable THEN Candidates(file.content) ELSE <<>>
        sup == [k \in 1..Len(cands) |->
                   IsSuppressed(cands[k].match, cands[k].raw, rules)]
        kept == SelectSeq([k \in 1..Len(cands) |-> k], LAMBDA k : ~sup[k].ret)
    IN  IF ~file.readable \/ \E k \in 1..Len(cands) : sup[k].exc
        THEN [exc |-> TRUE, issues |-> <<>>]
        ELSE [exc |-> FALSE,
              issues |-> [j \in 1..Len(kept) |-> Issue(file, cands[kept[j]])]]

\* scan_file(file_path, rules): issues is the list returned; exc is
\* TRUE where an exception leaves the function.  A file that cannot be read
\* returns the empty list.
scan_file(file, rules) ==
    IF ~file.readable THEN [exc |-> FALSE, issues |-> <<>>]
    ELSE LET cands == Candidates(file.content)
             sup == [k \in 1..Len(cands) |->
                        IsSuppressed(cands[k].match, cands[k].raw, rules)]
             kept == SelectSeq([k \in 1..Len(cands) |-> k], LAMBDA k : ~sup[k].ret)
         IN  IF \E k \in 1..Len(cands) : sup[k].exc
             THEN [exc |-> TRUE, issues |-> <<>>]
             ELSE [exc |-> FALSE,
                   issues |-> [j \in 1..Len(kept) |-> Issue(file, cands[kept[j]])]]

(***************************************************************************)
(* write_report                                                            *)
(***************************************************************************)
\* CountSeverity comparing the issue's type, not its severity
CountSeverityByType(found, severity) ==
    Cardinality({k \in 1..Len(found) : found[k].type = severity})

\* sum(1 for issue in issues if issue["severity"] == severity)
CountSeverity(found, severity) ==
    Cardinality({k \in 1..Len(found) : found[k].severity = severity})

Summary(found) ==
    [total_findings |-> Len(found),
     by_severity |-> [high |-> CountSeverity(found, "high"),
                      medium |-> CountSeverity(found, "medium"),
                      low |-> CountSeverity(found, "low")]]

\* the report value write_report serialises; now stands for utcnow()
Report(found, now) ==
    [generated_at |-> now, issues |-> found, summary |-> Summary(found)]

(***************************************************************************)
(* main                                                                    *)
(***************************************************************************)
NoChange ==
    [kind |-> "first", rule |-> <<>>, key |-> "", path |-> <<>>]

NoPrev ==
    [fs |-> TreeEmpty, allowfile |-> AllowAbsent, issues |-> <<>>,
     read_failed |-> {}, outcome |-> "none", exit_code |-> -1]

Init ==
    /\ fs \in Trees
    /\ allowfile \in AllowFiles
    /\ report = <<>>
    /\ run = 1
    /\ pc = "load"
    /\ allow_paths = <<>>
    /\ allow_patterns = <<>>
    /\ listing = <<>>
    /\ idx = 1
    /\ issues = <<>>
    /\ read_failed = {}
    /\ outcome = "none"
    /\ exit_code = -1
    /\ prev = NoPrev
    /\ change = NoChange

\* main lines 200-202: the exception is printed and the process exits with 2
Fatal ==
    /\ pc' = "done"
    /\ outcome' = "fatal"
    /\ exit_code' = 2

\* main line 197: load_allowlist returns
LoadAllowlist ==
    /\ pc = "load"
    /\ ~load_allowlist(allowfile).exc
    /\ allow_paths' = load_allowlist(allowfile).paths
    /\ allow_patterns' = load_allowlist(allowfile).patterns
    /\ pc' = "enter"
    /\ UNCHANGED <<fs, allowfile, report, run, listing, idx, issues,
                   read_failed, outcome, exit_code, prev, change>>

\* main line 197: load_allowlist raises
LoadAllowlistRaises ==
    /\ pc = "load"
    /\ load_allowlist(allowfile).exc
    /\ Fatal
    /\ UNCHANGED <<fs, allowfile, report, run, allow_paths, allow_patterns,
                   listing, idx, issues, read_failed, prev, change>>

\* scan_repository lines 150-151: the empty list and the walk of the root
ScanRepositoryEnter ==
    /\ pc = "enter"
    /\ issues' = <<>>
    /\ listing' = RGlob(fs)
    /\ idx' = 1
    /\ pc' = "loop"
    /\ UNCHANGED <<fs, allowfile, report, run, allow_paths, allow_patterns,
                   read_failed, outcome, exit_code, prev, change>>

InLoop ==
    pc = "loop" /\ idx <= Len(listing)

\* scan_repository lines 152-159: a directory is passed over, whatever
\* should_ignore_path answers
ScanDirectory ==
    /\ InLoop
    /\ listing[idx].isdir
    /\ ~should_ignore_path(listing[idx].path, allow_paths).exc
    /\ idx' = idx + 1
    /\ UNCHANGED <<fs, allowfile, report, run, pc, allow_paths, allow_patterns,
                   listing, issues, read_failed, outcome, exit_code, prev,
                   change>>

\* scan_repository lines 161-163: an ignored file is passed over
ScanIgnoredFile ==
    /\ InLoop
    /\ ~listing[idx].isdir
    /\ ~should_ignore_path(listing[idx].path, allow_paths).exc
    /\ should_ignore_path(listing[idx].path, allow_paths).ret
    /\ idx' = idx + 1
    /\ UNCHANGED <<fs, allowfile, report, run, pc, allow_paths, allow_patterns,
                   listing, issues, read_failed, outcome, exit_code, prev,
                   change>>

\* the files scan_file has failed to read, after it is called on file
ReadFailedAfter(file) ==
    IF file.readable THEN read_failed ELSE read_failed \cup {file.path}

\* scan_repository line 165: the file's issues are appended
ScanFile ==
    /\ InLoop
    /\ ~listing[idx].isdir
    /\ ~should_ignore_path(listing[idx].path, allow_paths).exc
    /\ ~should_ignore_path(listing[idx].path, allow_paths).ret
    /\ ~scan_file(listing[idx], allow_patterns).exc
    /\ issues' = issues \o scan_file(listing[idx], allow_patterns).issues
    /\ read_failed' = ReadFailedAfter(listing[idx])
    /\ idx' = idx + 1
    /\ UNCHANGED <<fs, allowfile, report, run, pc, allow_paths, allow_patterns,
                   listing, outcome, exit_code, prev, change>>

\* scan_repository lines 154 and 162: should_ignore_path raises, and the
\* exception reaches main; the list under construction is lost with the frame
ScanPathRaises ==
    /\ InLoop
    /\ should_ignore_path(listing[idx].path, allow_paths).exc
    /\ Fatal
    /\ issues' = <<>>
    /\ UNCHANGED <<fs, allowfile, report, run, allow_paths, allow_patterns,
                   listing, idx, read_failed, prev, change>>

\* scan_repository line 165: scan_file raises, and the exception reaches main
ScanFileRaises ==
    /\ InLoop
    /\ ~listing[idx].isdir
    /\ ~should_ignore_path(listing[idx].path, allow_paths).exc
    /\ ~should_ignore_path(listing[idx].path, allow_paths).ret
    /\ scan_file(listing[idx], allow_patterns).exc
    /\ Fatal
    /\ issues' = <<>>
    /\ read_failed' = ReadFailedAfter(listing[idx])
    /\ UNCHANGED <<fs, allowfile, report, run, allow_paths, allow_patterns,
                   listing, idx, prev, change>>

\* scan_repository line 166: the walk is exhausted and the list is returned
ScanRepositoryReturn ==
    /\ pc = "loop"
    /\ idx > Len(listing)
    /\ pc' = "write"
    /\ UNCHANGED <<fs, allowfile, report, run, allow_paths, allow_patterns,
                   listing, idx, issues, read_failed, outcome, exit_code, prev,
                   change>>

\* main line 199: write_report writes the report file
WriteReport ==
    /\ pc = "write"
    /\ fs.output_ok
    /\ report' = <<Report(issues, run)>>
    /\ pc' = "exit"
    /\ UNCHANGED <<fs, allowfile, run, allow_paths, allow_patterns, listing,
                   idx, issues, read_failed, outcome, exit_code, prev, change>>

\* main line 199: write_report raises OSError
WriteReportRaises ==
    /\ pc = "write"
    /\ ~fs.output_ok
    /\ Fatal
    /\ UNCHANGED <<fs, allowfile, report, run, allow_paths, allow_patterns,
                   listing, idx, issues, read_failed, prev, change>>

\* main lines 204-206: there are issues
ExitFindings ==
    /\ pc = "exit"
    /\ issues # <<>>
    /\ outcome' = "findings"
    /\ exit_code' = 1
    /\ pc' = "done"
    /\ UNCHANGED <<fs, allowfile, report, run, allow_paths, allow_patterns,
                   listing, idx, issues, read_failed, prev, change>>

\* main line 208: there are none, and the process ends with status 0
ExitClean ==
    /\ pc = "exit"
    /\ issues = <<>>
    /\ outcome' = "clean"
    /\ exit_code' = 0
    /\ pc' = "done"
    /\ UNCHANGED <<fs, allowfile, report, run, allow_paths, allow_patterns,
                   listing, idx, issues, read_failed, prev, change>>

(***************************************************************************)
(* Between two runs: the user leaves everything as it is, adds a text rule *)
(* to the allowlist file, or removes a file from the tree; then the        *)
(* scanner is started again, as a new process.                             *)
(***************************************************************************)
Restart(c) ==
    /\ pc = "done"
    /\ run < MaxRuns
    /\ prev' = [fs |-> fs, allowfile |-> allowfile, issues |-> issues,
                read_failed |-> read_failed, outcome |-> outcome,
                exit_code |-> exit_code]
    /\ change' = c
    /\ run' = run + 1
    /\ pc' = "load"
    /\ allow_paths' = <<>>
    /\ allow_patterns' = <<>>
    /\ listing' = <<>>
    /\ idx' = 1
    /\ issues' = <<>>
    /\ read_failed' = {}
    /\ outcome' = "none"
    /\ exit_code' = -1
    /\ UNCHANGED report

RunAgain ==
    /\ Restart([kind |-> "none", rule |-> <<>>, key |-> "", path |-> <<>>])
    /\ UNCHANGED <<fs, allowfile>>

\* the allowlist file with rule appended under key ("regexes" or "patterns")
WithRule(file, key, rule) ==
    IF key = "regexes"
    THEN AllowFile(file.paths, Append(file.regexes, rule), file.patterns)
    ELSE AllowFile(file.paths, file.regexes, Append(file.patterns, rule))

AddTextRule ==
    \E rule \in AddableRules, key \in {"regexes", "patterns"} :
        /\ allowfile.wellformed
        /\ Restart([kind |-> "add_rule", rule |-> rule, key |-> key, path |-> <<>>])
        /\ allowfile' = WithRule(allowfile, key, rule)
        /\ UNCHANGED fs

\* the tree without the file at position k of its entries
WithoutEntry(tree, k) ==
    Tree(tree.root, tree.output_ok,
         SubSeq(tree.entries, 1, k - 1) \o SubSeq(tree.entries, k + 1, Len(tree.entries)))

RemoveFile ==
    \E k \in 1..Len(fs.entries) :
        /\ ~fs.entries[k].isdir
        /\ Restart([kind |-> "remove_file", rule |-> <<>>, key |-> "",
                    path |-> fs.entries[k].path])
        /\ fs' = WithoutEntry(fs, k)
        /\ UNCHANGED allowfile

Next ==
    \/ LoadAllowlist
    \/ LoadAllowlistRaises
    \/ ScanRepositoryEnter
    \/ ScanDirectory
    \/ ScanIgnoredFile
    \/ ScanFile
    \/ ScanPathRaises
    \/ ScanFileRaises
    \/ ScanRepositoryReturn
    \/ WriteReport
    \/ WriteReportRaises
    \/ ExitFindings
    \/ ExitClean
    \/ RunAgain
    \/ AddTextRule
    \/ RemoveFile

Spec ==
    Init /\ [][Next]_vars

(***************************************************************************)
(* Properties                                                              *)
(***************************************************************************)
\* the positions of a sequence
Indices(seq) ==
    1..Len(seq)

\* the untrimmed source line an issue came from, read back from the tree
RawLine(tree, f) ==
    LET k == CHOOSE j \in Indices(tree.entries) : tree.entries[j].path = f.file
    IN  SplitLines(tree.entries[k].content)[f.line]

\* the report file was written by this run
ReportOfThisRun ==
    report # <<>> /\ report[1].generated_at = run

\* the issues of this run: the list being built or returned, and the list in
\* the report this run wrote
IssuesOfThisRun ==
    {issues[k] : k \in Indices(issues)}
    \cup (IF ReportOfThisRun
          THEN {report[1].issues[k] : k \in Indices(report[1].issues)}
          ELSE {})

HasHigh(found) ==
    \E k \in Indices(found) : found[k].severity = "high"

\* C1: for a scan that completes without a fatal error, main exits non-zero
\* if and only if the final findings hold a finding of severity high
C1_ExitSignalsHighSeverity ==
    (pc = "done" /\ outcome # "fatal") => ((exit_code # 0) <=> HasHigh(issues))

\* C2: in every report written, total_findings is the number of issues, and
\* by_severity has exactly the keys high, medium and low, whose counts sum to
\* total_findings; the report of an empty root counts zero everywhere
C2_SummaryPartitionsFindings ==
    \A k \in Indices(report) :
        LET s == report[k].summary IN
        /\ s.total_findings = Len(report[k].issues)
        /\ DOMAIN s.by_severity = {"high", "medium", "low"}
        /\ s.by_severity.high + s.by_severity.medium + s.by_severity.low
               = s.total_findings
        /\ (ReportOfThisRun /\ fs.entries = <<>>) =>
               /\ s.total_findings = 0
               /\ s.by_severity = [high |-> 0, medium |-> 0, low |-> 0]

\* C2 witness: a report was written that counts high and medium findings
C2_Witness ==
    /\ ReportOfThisRun
    /\ report[1].summary.by_severity.high > 0
    /\ report[1].summary.by_severity.medium > 0

\* C3: every issue has the fixed severity of its type: email medium, phone
\* high, ssn high
C3_SeverityIsFunctionOfType ==
    \A f \in IssuesOfThisRun :
        /\ f.type = "email" => f.severity = "medium"
        /\ f.type = "phone" => f.severity = "high"
        /\ f.type = "ssn" => f.severity = "high"
        /\ f.type \in {"email", "phone", "ssn"}

\* C3 witness: a finished scan found an email, a phone number and an ssn
C3_Witness ==
    /\ pc = "done"
    /\ \A type \in PiiTypes : \E k \in Indices(issues) : issues[k].type = type

\* C4: no text rule of the allowlist matches the matched text of an issue or
\* the untrimmed line it came from, for the issues being collected and for
\* those in the report written
C4_NoIssueMatchesTextRule ==
    \A f \in IssuesOfThisRun : \A k \in Indices(allow_patterns) :
        LET c == Compile(allow_patterns[k]) IN
        /\ c.ok
        /\ ~Search(c.re, f.match)
        /\ ~Search(c.re, RawLine(fs, f))

\* a file the loop has scanned had a candidate that is not among the issues
SomeCandidateSuppressed ==
    \E j \in 1..(idx - 1) :
        /\ j <= Len(listing)
        /\ ~listing[j].isdir
        /\ listing[j].readable
        /\ ~should_ignore_path(listing[j].path, allow_paths).ret
        /\ \E n \in Indices(Candidates(listing[j].content)) :
              LET cand == Candidates(listing[j].content)[n] IN
              \A k \in Indices(issues) :
                  \/ issues[k].file # listing[j].path
                  \/ issues[k].line # cand.line
                  \/ issues[k].type # cand.type
                  \/ issues[k].match # cand.match

\* C4 witness: a scan under text rules ended with issues, having suppressed
\* a candidate
C4_Witness ==
    /\ pc = "done"
    /\ outcome = "findings"
    /\ allow_patterns # <<>>
    /\ SomeCandidateSuppressed

\* a path rule excludes the path, by glob or by prefix
PathRuleExcludes(parts, entry) ==
    \/ PathMatch(parts, entry).ret
    \/ StartsWith(AsPosix(parts), RStrip(entry, {"/"}))

\* C5: no issue refers to a file with a component in the built-in directory
\* exclusions, a built-in excluded name, or a path a user path rule matches
C5_NoIssueOnExcludedPath ==
    \A f \in IssuesOfThisRun :
        /\ \A k \in Indices(f.file) : f.file[k] \notin DEFAULT_IGNORED_DIRECTORIES
        /\ f.file[Len(f.file)] \notin DEFAULT_IGNORED_FILES
        /\ \A k \in Indices(allow_paths) : ~PathRuleExcludes(f.file, allow_paths[k])

\* the walk yielded a file with candidates that path p-excludes, p being one
\* of "directory", "lockfile" and "rule"
ExcludedFileWithCandidates(p) ==
    \E j \in Indices(listing) :
        /\ ~listing[j].isdir
        /\ listing[j].readable
        /\ Candidates(listing[j].content) # <<>>
        /\ CASE p = "directory" ->
                  PartsSet(listing[j].path) \cap DEFAULT_IGNORED_DIRECTORIES # {}
             [] p = "lockfile" ->
                  PathName(listing[j].path) \in DEFAULT_IGNORED_FILES
             [] p = "rule" ->
                  \E k \in Indices(allow_paths) :
                      PathRuleExcludes(listing[j].path, allow_paths[k])

\* C5 witness: a scan ended with issues over a tree holding files with
\* candidates under an excluded directory, under a lockfile name and under a
\* user path rule
C5_Witness ==
    /\ pc = "done"
    /\ outcome = "findings"
    /\ ExcludedFileWithCandidates("directory")
    /\ ExcludedFileWithCandidates("lockfile")
    /\ ExcludedFileWithCandidates("rule")

\* found without its element at position k
RemoveAt(found, k) ==
    SubSeq(found, 1, k - 1) \o SubSeq(found, k + 1, Len(found))

\* the user added a text rule, and it matches the matched text of the issue
\* at position k of the previous scan's result
AddedRuleMatches(k) ==
    /\ change.kind = "add_rule"
    /\ k \in Indices(prev.issues)
    /\ Compile(change.rule).ok
    /\ Search(Compile(change.rule).re, prev.issues[k].match)

\* the added rule matches the issue's matched text or its untrimmed line
AddedRuleSuppresses(f) ==
    \/ Search(Compile(change.rule).re, f.match)
    \/ Search(Compile(change.rule).re, RawLine(prev.fs, f))

\* C6, as claimed: when scan_repository returns after a text rule was added
\* that matches the matched text of an issue of the previous result, it
\* returns the previous result with exactly that issue removed
C6_AddedRuleRemovesExactlyOne ==
    \A k \in Indices(prev.issues) :
        (pc = "write" /\ AddedRuleMatches(k)) => issues = RemoveAt(prev.issues, k)

\* C6, amended: after a text rule was added that matches the matched text of
\* an issue of the previous result, the scan does not fail and returns the
\* previous result without the issues whose matched text or untrimmed line
\* the rule matches, the others unchanged and in the same order
C6_AddedRuleRemovesAllItMatches ==
    (\E k \in Indices(prev.issues) : AddedRuleMatches(k)) =>
        /\ pc = "write" =>
              issues = SelectSeq(prev.issues, LAMBDA f : ~AddedRuleSuppresses(f))
        /\ (pc = "done" /\ outcome = "fatal") => ~fs.output_ok

\* C6 witness: the added rule matched an issue's text, and the scan returned
\* a non-empty result from which more than that one issue is gone
C6_Witness ==
    /\ pc = "write"
    /\ \E k \in Indices(prev.issues) : AddedRuleMatches(k)
    /\ issues # <<>>
    /\ Len(issues) < Len(prev.issues) - 1

\* C7: with a root that cannot be listed, scan_repository does not return,
\* no report is written and the run ends in the fatal outcome
C7_UnlistableRootIsFatal ==
    fs.root # "ok" =>
        /\ pc \notin {"write", "exit"}
        /\ ~ReportOfThisRun
        /\ pc = "done" => outcome = "fatal"

WalkPosition(f) ==
    CHOOSE j \in Indices(listing) : listing[j].path = f.file

C10_ExcludedSubtreeNeverVisited ==
    \A j \in Indices(listing) :
        j < idx =>
            \A k \in 1..(Len(listing[j].path) - 1) :
                listing[j].path[k] \notin DEFAULT_IGNORED_DIRECTORIES

====
